---- MODULE Spec2Model ----
(***************************************************************************)
(* LC-3 instruction-execution engine of RustASM-16                         *)
(* (src/src/emulation/instruction/mod.rs).                                 *)
(*                                                                         *)
(* The handlers of mod.rs are operators from a VM record to the VM record  *)
(* they leave behind; one action per handler dispatches an instruction     *)
(* word.  The register file and the memory live in emulation/vm.rs and     *)
(* emulation/registers, which are not part of the sources at hand: get,    *)
(* update, update_r_cond_register, read_memory and write_memory follow     *)
(* sections 3, 4.2 and 4.3 of the specification.                           *)
(***************************************************************************)
EXTENDS Integers, Sequences, FiniteSets, TLC

VARIABLES
    reg,              \* vm.registers.r0 .. r7, as a function 0..7 -> u16
    pc,               \* vm.registers.pc
    cond,             \* vm.registers.cond
    memory,           \* vm.memory: the cells that are not 0x0000 by default
    stdin,            \* bytes the process can still read from its input
    stdout,           \* bytes the process has written to its output
    status,           \* "running", "exited" (process::exit(1)), "panicked"
    overflow_checks,  \* build profile: TRUE = debug (overflow panics)
    hist,             \* dispatched instructions with the VM they found
    sx, sw, sres      \* sign_extend applied on its own: x, bit_count, <<result>>

vars == <<reg, pc, cond, memory, stdin, stdout, status, overflow_checks,
          hist, sx, sw, sres>>

-----------------------------------------------------------------------------
(* 16-bit words and bit operations                                         *)

Word == 65536

RECURSIVE Pow2(_)
Pow2(n) == IF n = 0 THEN 1 ELSE 2 * Pow2(n - 1)

RECURSIVE bitand(_, _)
bitand(a, b) ==
    IF a = 0 \/ b = 0 THEN 0
    ELSE (a % 2) * (b % 2) + 2 * bitand(a \div 2, b \div 2)

bitor(a, b) == a + b - bitand(a, b)

\* `as u16` of a u32 value
as_u16(v) == v % Word

\* the value standing for a Rust panic inside an expression
Panic == -1

\* u16 << s and u16 >> s: a shift by 16 or more overflows; the debug build
\* panics, the release build shifts by s mod 16
shl_u16(x, s) ==
    IF s >= 16
    THEN IF overflow_checks THEN Panic ELSE (x * Pow2(s % 16)) % Word
    ELSE (x * Pow2(s)) % Word

shr_u16(x, s) ==
    IF s >= 16
    THEN IF overflow_checks THEN Panic ELSE x \div Pow2(s % 16)
    ELSE x \div Pow2(s)

\* u8 - 1: bit_count - 1 underflows for bit_count = 0
sub1_u8(b) == IF b = 0 THEN (IF overflow_checks THEN Panic ELSE 255) ELSE b - 1

sign_extend(x, bit_count) ==
    LET s    == sub1_u8(bit_count)
        top  == IF s = Panic THEN Panic ELSE shr_u16(x, s)
        mask == shl_u16(65535, bit_count)
    IN  IF top = Panic THEN Panic
        ELSE IF top % 2 # 0
             THEN IF mask = Panic THEN Panic ELSE bitor(x, mask)
             ELSE x

-----------------------------------------------------------------------------
(* Register file and memory (emulation/vm.rs, emulation/registers)         *)

FL_POS == 1
FL_ZRO == 2
FL_NEG == 4

KBSR == 65024
KBDR == 65026

get(vm, i) == vm.reg[i]

update(vm, i, v) == [vm EXCEPT !.reg[i] = v]

update_r_cond_register(vm, i) ==
    LET v == get(vm, i)
    IN  [vm EXCEPT !.cond = IF v = 0 THEN FL_ZRO
                            ELSE IF v \div 32768 # 0 THEN FL_NEG
                            ELSE FL_POS]

cell(mem, addr) == IF addr \in DOMAIN mem THEN mem[addr] ELSE 0

\* memory[addr] = v; cells holding 0x0000 are not kept, so that two equal
\* memory arrays are one value
write_cell(mem, addr, v) ==
    [a \in ((DOMAIN mem) \ {addr}) \cup (IF v = 0 THEN {} ELSE {addr}) |->
        IF a = addr THEN v ELSE mem[a]]

write_memory(vm, addr, v) == [vm EXCEPT !.memory = write_cell(@, addr, v)]

\* the VM a read leaves behind: reading KBSR polls the input channel
poll_memory(vm, addr) ==
    IF addr = KBSR
    THEN IF vm.stdin # <<>>
         THEN write_memory(write_memory(vm, KBSR, 32768), KBDR, Head(vm.stdin))
         ELSE write_memory(vm, KBSR, 0)
    ELSE vm

read_memory(vm, addr) == cell(poll_memory(vm, addr).memory, addr)

-----------------------------------------------------------------------------
(* Console: print! writes a char as UTF-8, read_exact / bytes().next()     *)
(* take one byte of the input                                              *)

\* UTF-8 encoding of the char U+0000 .. U+00FF that `b as char` yields
utf8(b) == IF b < 128 THEN <<b>> ELSE <<192 + (b \div 64), 128 + (b % 64)>>

print_char(vm, b) == [vm EXCEPT !.stdout = @ \o utf8(b)]

print_str(vm, bytes) == [vm EXCEPT !.stdout = @ \o bytes]

\* "Enter a  character : "
IN_PROMPT == <<69, 110, 116, 101, 114, 32, 97, 32, 32, 99, 104, 97, 114, 97,
               99, 116, 101, 114, 32, 58, 32>>

\* "HALT detected" and the newline of println!
HALT_MSG == <<72, 65, 76, 84, 32, 100, 101, 116, 101, 99, 116, 101, 100, 10>>

panic(vm) == [vm EXCEPT !.status = "panicked"]

exit(vm) == [vm EXCEPT !.status = "exited"]

-----------------------------------------------------------------------------
(* Decoder                                                                 *)

get_op_code(instruction) ==
    LET n == instruction \div 4096
    IN  CASE n = 0 -> "BR"   [] n = 1 -> "ADD"  [] n = 2 -> "LD"
          [] n = 3 -> "ST"   [] n = 4 -> "JSR"  [] n = 5 -> "AND"
          [] n = 6 -> "LDR"  [] n = 7 -> "STR"  [] n = 8 -> "RTI"
          [] n = 9 -> "NOT"  [] n = 10 -> "LDI" [] n = 11 -> "STI"
          [] n = 12 -> "JMP" [] n = 13 -> "RES" [] n = 14 -> "LEA"
          [] n = 15 -> "TRAP"
          [] OTHER -> "None"

-----------------------------------------------------------------------------
(* Instruction handlers                                                    *)

\* add with imm5 zero-extended
add_zero_extended(instruction, vm) ==
    LET dr       == (instruction \div 512) % 8
        sr1      == (instruction \div 64) % 8
        imm_flag == (instruction \div 32) % 2
        val      == IF imm_flag = 1
                    THEN (instruction % 32) + get(vm, sr1)
                    ELSE get(vm, sr1) + get(vm, instruction % 8)
    IN  update_r_cond_register(update(vm, dr, as_u16(val)), dr)

\* add that sets the new flag without clearing the old one
add_accumulates_flags(instruction, vm) ==
    LET dr       == (instruction \div 512) % 8
        sr1      == (instruction \div 64) % 8
        imm_flag == (instruction \div 32) % 2
        val      == IF imm_flag = 1
                    THEN sign_extend(instruction % 32, 5) + get(vm, sr1)
                    ELSE get(vm, sr1) + get(vm, instruction % 8)
        vm1      == update_r_cond_register(update(vm, dr, as_u16(val)), dr)
    IN  [vm1 EXCEPT !.cond = bitor(vm.cond, @)]

add(instruction, vm) ==
    LET dr       == (instruction \div 512) % 8
        sr1      == (instruction \div 64) % 8
        imm_flag == (instruction \div 32) % 2
        val      == IF imm_flag = 1
                    THEN sign_extend(instruction % 32, 5) + get(vm, sr1)
                    ELSE get(vm, sr1) + get(vm, instruction % 8)
    IN  update_r_cond_register(update(vm, dr, as_u16(val)), dr)

\* ldi that stops at the first read, as ld does
ldi_single_read(instruction, vm) ==
    LET dr        == (instruction \div 512) % 8
        pc_offset == sign_extend(instruction % 512, 9)
        sum       == vm.pc + pc_offset
    IN  IF sum >= Word /\ overflow_checks THEN panic(vm)
        ELSE LET first_read == read_memory(vm, sum % Word)
                 vm1        == poll_memory(vm, sum % Word)
             IN  update_r_cond_register(update(vm1, dr, first_read), dr)

\* vm.registers.pc + pc_offset is a u16 addition: the debug build panics on
\* overflow, the release build wraps
ldi(instruction, vm) ==
    LET dr        == (instruction \div 512) % 8
        pc_offset == sign_extend(instruction % 512, 9)
        sum       == vm.pc + pc_offset
    IN  IF sum >= Word /\ overflow_checks THEN panic(vm)
        ELSE LET first_read == read_memory(vm, sum % Word)
                 vm1        == poll_memory(vm, sum % Word)
                 resulting_address == read_memory(vm1, first_read)
                 vm2        == poll_memory(vm1, first_read)
             IN  update_r_cond_register(update(vm2, dr, resulting_address), dr)

and(instruction, vm) ==
    LET dr       == (instruction \div 512) % 8
        sr1      == (instruction \div 64) % 8
        imm_flag == (instruction \div 32) % 2
        val      == IF imm_flag = 1
                    THEN bitand(get(vm, sr1), sign_extend(instruction % 32, 5))
                    ELSE bitand(get(vm, sr1), get(vm, instruction % 8))
    IN  update_r_cond_register(update(vm, dr, val), dr)

not(instruction, vm) ==
    LET dr  == (instruction \div 512) % 8
        sr1 == (instruction \div 64) % 8
    IN  update_r_cond_register(update(vm, dr, 65535 - get(vm, sr1)), dr)

\* br with the test read as cond_flag & (cond != 0)
br_c_precedence(instruction, vm) ==
    LET pc_offset == sign_extend(instruction % 512, 9)
        cond_flag == (instruction \div 512) % 8
    IN  IF bitand(cond_flag, IF vm.cond # 0 THEN 1 ELSE 0) # 0
        THEN [vm EXCEPT !.pc = as_u16(vm.pc + pc_offset)]
        ELSE vm

br(instruction, vm) ==
    LET pc_offset == sign_extend(instruction % 512, 9)
        cond_flag == (instruction \div 512) % 8
    IN  IF bitand(cond_flag, vm.cond) # 0
        THEN [vm EXCEPT !.pc = as_u16(vm.pc + pc_offset)]
        ELSE vm

jmp(instruction, vm) ==
    LET base_reg == (instruction \div 64) % 8
    IN  [vm EXCEPT !.pc = get(vm, base_reg)]

\* jsr that links after the jump: R7 = the new PC
jsr_links_after_jump(instruction, vm) ==
    LET base_reg       == (instruction \div 64) % 8
        long_pc_offset == sign_extend(instruction % 2048, 11)
        long_flag      == (instruction \div 2048) % 2
        vm1            == IF long_flag # 0
                          THEN [vm EXCEPT !.pc = as_u16(vm.pc + long_pc_offset)]
                          ELSE [vm EXCEPT !.pc = get(vm, base_reg)]
    IN  [vm1 EXCEPT !.reg[7] = vm1.pc]

\* jsr that reads BaseR before it writes R7
jsr_reads_base_first(instruction, vm) ==
    LET base_reg       == (instruction \div 64) % 8
        long_pc_offset == sign_extend(instruction % 2048, 11)
        long_flag      == (instruction \div 2048) % 2
        target         == IF long_flag # 0
                          THEN as_u16(vm.pc + long_pc_offset)
                          ELSE get(vm, base_reg)
    IN  [vm EXCEPT !.reg[7] = vm.pc, !.pc = target]

jsr(instruction, vm) ==
    LET base_reg       == (instruction \div 64) % 8
        long_pc_offset == sign_extend(instruction % 2048, 11)
        long_flag      == (instruction \div 2048) % 2
        vm1            == [vm EXCEPT !.reg[7] = vm.pc]
    IN  IF long_flag # 0
        THEN [vm1 EXCEPT !.pc = as_u16(vm1.pc + long_pc_offset)]
        ELSE [vm1 EXCEPT !.pc = get(vm1, base_reg)]

\* ld with PCoffset9 zero-extended
ld_zero_extended(instruction, vm) ==
    LET dr        == (instruction \div 512) % 8
        pc_offset == instruction % 512
        mem       == as_u16(pc_offset + vm.pc)
        value     == read_memory(vm, mem)
        vm1       == poll_memory(vm, mem)
    IN  update_r_cond_register(update(vm1, dr, value), dr)

ld(instruction, vm) ==
    LET dr        == (instruction \div 512) % 8
        pc_offset == sign_extend(instruction % 512, 9)
        mem       == as_u16(pc_offset + vm.pc)
        value     == read_memory(vm, mem)
        vm1       == poll_memory(vm, mem)
    IN  update_r_cond_register(update(vm1, dr, value), dr)

ldr(instruction, vm) ==
    LET dr        == (instruction \div 512) % 8
        base_reg  == (instruction \div 64) % 8
        offset    == sign_extend(instruction % 64, 6)
        val       == as_u16(get(vm, base_reg) + offset)
        mem_value == read_memory(vm, val)
        vm1       == poll_memory(vm, val)
    IN  update_r_cond_register(update(vm1, dr, mem_value), dr)

\* lea that leaves the condition code alone
lea_without_cc(instruction, vm) ==
    LET dr        == (instruction \div 512) % 8
        pc_offset == sign_extend(instruction % 512, 9)
        val       == as_u16(vm.pc + pc_offset)
    IN  update(vm, dr, val)

\* lea that counts from the address of the instruction itself
lea_from_instruction_address(instruction, vm) ==
    LET dr        == (instruction \div 512) % 8
        pc_offset == sign_extend(instruction % 512, 9)
        val       == as_u16(vm.pc + Word - 1 + pc_offset)
    IN  update_r_cond_register(update(vm, dr, val), dr)

lea(instruction, vm) ==
    LET dr        == (instruction \div 512) % 8
        pc_offset == sign_extend(instruction % 512, 9)
        val       == as_u16(vm.pc + pc_offset)
    IN  update_r_cond_register(update(vm, dr, val), dr)

st(instruction, vm) ==
    LET sr        == (instruction \div 512) % 8
        pc_offset == sign_extend(instruction % 512, 9)
        val       == as_u16(vm.pc + pc_offset)
    IN  write_memory(vm, val, get(vm, sr))

\* sti that stores into the pointer cell itself, as st does
sti_writes_pointer_cell(instruction, vm) ==
    LET sr        == (instruction \div 512) % 8
        pc_offset == sign_extend(instruction % 512, 9)
        val       == as_u16(vm.pc + pc_offset)
        vm1       == poll_memory(vm, val)
    IN  write_memory(vm1, val, get(vm1, sr))

sti(instruction, vm) ==
    LET sr        == (instruction \div 512) % 8
        pc_offset == sign_extend(instruction % 512, 9)
        val       == as_u16(vm.pc + pc_offset)
        address   == read_memory(vm, val)
        vm1       == poll_memory(vm, val)
    IN  write_memory(vm1, address, get(vm1, sr))

str(instruction, vm) ==
    LET dr       == (instruction \div 512) % 8
        base_reg == (instruction \div 64) % 8
        offset   == sign_extend(instruction % 64, 6)
        val      == as_u16(get(vm, base_reg) + offset)
    IN  write_memory(vm, val, get(vm, dr))

\* PUTS: while c != 0x0000 { print!(c as u8 as char); index += 1; c = read }
\* index += 1 is a u16 addition: at 0xFFFF the debug build panics, the
\* release build wraps to 0x0000
RECURSIVE puts_loop(_, _, _)
puts_loop(vm, index, c) ==
    IF c = 0 THEN vm
    ELSE LET vm1 == print_char(vm, c % 256)
         IN  IF index + 1 >= Word /\ overflow_checks THEN panic(vm1)
             ELSE LET next == (index + 1) % Word
                  IN  puts_loop(poll_memory(vm1, next), next,
                                read_memory(vm1, next))

\* PUTSP: low byte, then the high byte unless it is '\0'
RECURSIVE putsp_loop(_, _, _)
putsp_loop(vm, index, c) ==
    IF c = 0 THEN vm
    ELSE LET c1  == c % 256
             c2  == c \div 256
             vm1 == print_char(vm, c1)
             vm2 == IF c2 # 0 THEN print_char(vm1, c2) ELSE vm1
         IN  IF index + 1 >= Word /\ overflow_checks THEN panic(vm2)
             ELSE LET next == (index + 1) % Word
                  IN  putsp_loop(poll_memory(vm2, next), next,
                                 read_memory(vm2, next))

\* GETC that sets the condition code from R0
trap_getc_with_cc(vm) ==
    IF vm.stdin = <<>> THEN panic(vm)
    ELSE update_r_cond_register(
             [vm EXCEPT !.reg[0] = Head(vm.stdin), !.stdin = Tail(@)], 0)

\* GETC that echoes the byte it read
trap_getc_echoing(vm) ==
    IF vm.stdin = <<>> THEN panic(vm)
    ELSE print_char([vm EXCEPT !.reg[0] = Head(vm.stdin), !.stdin = Tail(@)],
                    Head(vm.stdin))

\* 0x20 GETC: read_exact(..).unwrap() panics at end of input
trap_getc(vm) ==
    IF vm.stdin = <<>> THEN panic(vm)
    ELSE [vm EXCEPT !.reg[0] = Head(vm.stdin), !.stdin = Tail(@)]

\* 0x21 OUT
trap_out(vm) == print_char(vm, vm.reg[0] % 256)

\* 0x22 PUTS
trap_puts(vm) ==
    puts_loop(poll_memory(vm, vm.reg[0]), vm.reg[0], read_memory(vm, vm.reg[0]))

\* IN that reads its byte before it prompts
trap_in_reads_first(vm) ==
    IF vm.stdin = <<>> THEN panic(vm)
    ELSE print_str(update([vm EXCEPT !.stdin = Tail(@)], 0, Head(vm.stdin)),
                   IN_PROMPT)

\* 0x23 IN: the prompt, then bytes().next()...unwrap(), which panics at end
\* of input
trap_in(vm) ==
    LET vm1 == print_str(vm, IN_PROMPT)
    IN  IF vm1.stdin = <<>> THEN panic(vm1)
        ELSE update([vm1 EXCEPT !.stdin = Tail(@)], 0, Head(vm1.stdin))

\* 0x24 PUTSP
trap_putsp(vm) ==
    putsp_loop(poll_memory(vm, vm.reg[0]), vm.reg[0], read_memory(vm, vm.reg[0]))

\* 0x25 HALT
trap_halt(vm) == exit(print_str(vm, HALT_MSG))

trap(instruction, vm) ==
    LET vect == instruction % 256
    IN  CASE vect = 32 -> trap_getc(vm)
          [] vect = 33 -> trap_out(vm)
          [] vect = 34 -> trap_puts(vm)
          [] vect = 35 -> trap_in(vm)
          [] vect = 36 -> trap_putsp(vm)
          [] vect = 37 -> trap_halt(vm)
          [] OTHER -> exit(vm)

\* a dispatcher that aborts on the opcodes it has no handler for
execute_instruction_aborting(instr, vm) ==
    LET op_code == get_op_code(instr)
    IN  CASE op_code = "ADD"  -> add(instr, vm)
          [] op_code = "AND"  -> and(instr, vm)
          [] op_code = "NOT"  -> not(instr, vm)
          [] op_code = "BR"   -> br(instr, vm)
          [] op_code = "JMP"  -> jmp(instr, vm)
          [] op_code = "JSR"  -> jsr(instr, vm)
          [] op_code = "LD"   -> ld(instr, vm)
          [] op_code = "LDI"  -> ldi(instr, vm)
          [] op_code = "LDR"  -> ldr(instr, vm)
          [] op_code = "LEA"  -> lea(instr, vm)
          [] op_code = "ST"   -> st(instr, vm)
          [] op_code = "STI"  -> sti(instr, vm)
          [] op_code = "STR"  -> str(instr, vm)
          [] op_code = "TRAP" -> trap(instr, vm)
          [] OTHER -> exit(vm)

execute_instruction(instr, vm) ==
    LET op_code == get_op_code(instr)
    IN  CASE op_code = "ADD"  -> add(instr, vm)
          [] op_code = "AND"  -> and(instr, vm)
          [] op_code = "NOT"  -> not(instr, vm)
          [] op_code = "BR"   -> br(instr, vm)
          [] op_code = "JMP"  -> jmp(instr, vm)
          [] op_code = "JSR"  -> jsr(instr, vm)
          [] op_code = "LD"   -> ld(instr, vm)
          [] op_code = "LDI"  -> ldi(instr, vm)
          [] op_code = "LDR"  -> ldr(instr, vm)
          [] op_code = "LEA"  -> lea(instr, vm)
          [] op_code = "ST"   -> st(instr, vm)
          [] op_code = "STI"  -> sti(instr, vm)
          [] op_code = "STR"  -> str(instr, vm)
          [] op_code = "TRAP" -> trap(instr, vm)
          [] OTHER -> vm

-----------------------------------------------------------------------------
(* Inputs: VM states a loaded program can be in, and instruction words     *)

\* longest input the process is started with
MaxInput == 1

InBytes == {200}

RECURSIVE SeqsUpTo(_, _)
SeqsUpTo(S, n) ==
    IF n = 0 THEN {<<>>}
    ELSE LET shorter == SeqsUpTo(S, n - 1)
         IN  shorter \cup {Append(q, b) : q \in shorter, b \in S}

Stdins == SeqsUpTo(InBytes, MaxInput)

RegZero == [i \in 0..7 |-> 0]

\* R0 = 0xFFFF, R1 = 1, R2 = 0x00F0, R3 = 0x0F0F, R4 = 0x7FFF, R5 = 0x8000,
\* R6 = 0xFE00, R7 = 0x4000
RegA == [i \in 0..7 |->
           CASE i = 0 -> 65535 [] i = 1 -> 1     [] i = 2 -> 240
             [] i = 3 -> 3855  [] i = 4 -> 32767 [] i = 5 -> 32768
             [] i = 6 -> 65024 [] i = 7 -> 16384]

\* R0 = 0x4000, R1 = 0x8000, R2 = 0x3001, R3 = 5, R4 = 0xFE00, R5 = 0,
\* R6 = 0xFFFF, R7 = 0x1234
RegB == [i \in 0..7 |->
           CASE i = 0 -> 16384 [] i = 1 -> 32768 [] i = 2 -> 12289
             [] i = 3 -> 5     [] i = 4 -> 65024 [] i = 5 -> 0
             [] i = 6 -> 65535 [] i = 7 -> 4660]

MemZero == << >>

\* 0x0000: 0x0042   0x3001: 0x3001 (a cell holding its own address)
\* 0x3002: 0xBEEF   0x3003: 0xFE00 (a pointer to KBSR)
\* 0x4000: 0x6948 0x00C8 0x4100 (a packed string, then 0x0000)
\* 0xFFFF: 0x0041 (a string that runs past the last address)
MemA == (0 :> 66) @@ (12289 :> 12289) @@ (12290 :> 48879) @@ (12291 :> 65024)
        @@ (16384 :> 26952) @@ (16385 :> 200) @@ (16386 :> 16640)
        @@ (65535 :> 65)

Images == {<<RegZero, MemZero>>, <<RegA, MemA>>, <<RegB, MemA>>}

\* 0x3001 and 0x3002 (a loaded program), 0xFFFF (sums that wrap), 0xFE00
\* (KBSR)
PCs == {12289, 12290, 65535, 65024}

Flags == {FL_NEG, FL_ZRO, FL_POS}

\* instruction words of one opcode: bits [11:9], [8:6], [5] and [4:0]
Hi3 == {0, 1, 4, 7}
Mid3 == {0, 4, 7}
Lo5 == {0, 1, 2, 5, 16, 31}

Words(op) == {op * 4096 + h * 512 + m * 64 + f * 32 + l :
                h \in Hi3, m \in Mid3, f \in {0, 1}, l \in Lo5}

\* TRAP words: the six vectors, illegal vectors, and junk in bits [11:8]
TrapVects == {32, 33, 34, 35, 36, 37, 38, 0, 255}

TrapWords == {15 * 4096 + j * 256 + v : j \in {0, 15}, v \in TrapVects}

-----------------------------------------------------------------------------
(* State machine: the driver hands one instruction word to                 *)
(* execute_instruction                                                     *)

VM == [reg |-> reg, pc |-> pc, cond |-> cond, memory |-> memory,
       stdin |-> stdin, stdout |-> stdout, status |-> status]

Idle == sx = 0 /\ sw = 0 /\ sres = <<>>

Init ==
    /\ \E im \in Images : reg = im[1] /\ memory = im[2]
    /\ pc \in PCs
    /\ cond \in Flags
    /\ stdin \in Stdins
    /\ stdout = <<>>
    /\ status = "running"
    /\ overflow_checks \in BOOLEAN
    /\ hist = <<>>
    /\ Idle

\* the VM takes the state the handler leaves; the call is recorded
Commit(instr, vm) ==
    /\ reg' = vm.reg
    /\ pc' = vm.pc
    /\ cond' = vm.cond
    /\ memory' = vm.memory
    /\ stdin' = vm.stdin
    /\ stdout' = vm.stdout
    /\ status' = vm.status
    /\ hist' = Append(hist, [instr |-> instr, pre |-> VM])
    /\ UNCHANGED <<overflow_checks, sx, sw, sres>>

\* one call of execute_instruction on a running VM
Dispatch(instr) ==
    LET vm == execute_instruction(instr, VM)
    IN  Commit(instr, vm)

Fresh == status = "running" /\ hist = <<>>

Br   == Fresh /\ \E instr \in Words(0) : Dispatch(instr)
Add  == Fresh /\ \E instr \in Words(1) : Dispatch(instr)
Ld   == Fresh /\ \E instr \in Words(2) : Dispatch(instr)
St   == Fresh /\ \E instr \in Words(3) : Dispatch(instr)
Jsr  == Fresh /\ \E instr \in Words(4) : Dispatch(instr)
And  == Fresh /\ \E instr \in Words(5) : Dispatch(instr)
Ldr  == Fresh /\ \E instr \in Words(6) : Dispatch(instr)
Str  == Fresh /\ \E instr \in Words(7) : Dispatch(instr)
Rti  == Fresh /\ \E instr \in Words(8) : Dispatch(instr)
Not  == Fresh /\ \E instr \in Words(9) : Dispatch(instr)
Ldi  == Fresh /\ \E instr \in Words(10) : Dispatch(instr)
Sti  == Fresh /\ \E instr \in Words(11) : Dispatch(instr)
Jmp  == Fresh /\ \E instr \in Words(12) : Dispatch(instr)
Res  == Fresh /\ \E instr \in Words(13) : Dispatch(instr)
Lea  == Fresh /\ \E instr \in Words(14) : Dispatch(instr)
Trap == Fresh /\ \E instr \in TrapWords : Dispatch(instr)

Next ==
    \/ Br  \/ Add \/ Ld  \/ St  \/ Jsr \/ And \/ Ldr \/ Str
    \/ Rti \/ Not \/ Ldi \/ Sti \/ Jmp \/ Res \/ Lea \/ Trap

Spec == Init /\ [][Next]_vars

-----------------------------------------------------------------------------
(* sign_extend on its own: every field of a small width, and the edge      *)
(* fields of every width up to 16                                          *)

\* widths whose fields are all tried
MaxFullWidth == 8

Fields(w) ==
    IF w <= MaxFullWidth THEN 0 .. (Pow2(w) - 1)
    ELSE {0, 1, Pow2(w - 1) - 1, Pow2(w - 1), Pow2(w - 1) + 1, Pow2(w) - 1}

InitSignExtend ==
    /\ reg = RegZero /\ memory = MemZero /\ pc = 12288 /\ cond = FL_ZRO
    /\ stdin = <<>> /\ stdout = <<>> /\ status = "running" /\ hist = <<>>
    /\ overflow_checks \in BOOLEAN
    /\ sw \in 1..16
    /\ sx \in Fields(sw)
    /\ sres = <<>>

ApplySignExtend ==
    /\ sres = <<>>
    /\ sres' = <<sign_extend(sx, sw)>>
    /\ UNCHANGED <<reg, pc, cond, memory, stdin, stdout, status,
                   overflow_checks, hist, sx, sw>>

NextSignExtend == ApplySignExtend

SpecSignExtend == InitSignExtend /\ [][NextSignExtend]_vars

-----------------------------------------------------------------------------
(* Round trips: a store, then a load, with nothing dispatched in between   *)

RtRegs == {0, 1, 7}

\* PCoffset9: 0, 1, 2, -1, -256
RtOffsets == {0, 1, 2, 511, 256}

RtWords(op) == {op * 4096 + r * 512 + x : r \in RtRegs, x \in RtOffsets}

Stored == status = "running" /\ Len(hist) = 1

RtSt  == Fresh  /\ \E instr \in RtWords(3)  : Dispatch(instr)
RtSti == Fresh  /\ \E instr \in RtWords(11) : Dispatch(instr)
RtLd  == Stored /\ \E instr \in RtWords(2)  : Dispatch(instr)
RtLdi == Stored /\ \E instr \in RtWords(10) : Dispatch(instr)

NextRoundTrip == RtSt \/ RtSti \/ RtLd \/ RtLdi

SpecRoundTrip == Init /\ [][NextRoundTrip]_vars

-----------------------------------------------------------------------------
(* The driver's loop: read the word at PC, advance PC, dispatch the word   *)

\* instructions the driver runs before it is stopped
MaxCycles == 2

\* LEA R0,#1  LEA R0,#0  ADD R0,R0,#1  LD R1,#1  AND R0,R0,#0  BRz #1
\* TRAP HALT  TRAP GETC
DrvFirst == {57345, 57344, 4129, 8705, 20512, 1025, 61477, 61472}

\* LD R1,#0  LD R1,#-1  LEA R1,#1  ADD R1,R1,#1  NOT R0,R0  ST R0,#1
\* TRAP OUT  JMP R0
DrvSecond == {8704, 8703, 57857, 4705, 36927, 12289, 61473, 49152}

\* a two-word program at 0x3000 followed by the data word 0xBEEF
Program(a, b) == (12288 :> a) @@ (12289 :> b) @@ (12290 :> 48879)

InitDriver ==
    /\ reg = RegZero
    /\ pc = 12288
    /\ cond = FL_ZRO
    /\ \E a \in DrvFirst, b \in DrvSecond : memory = Program(a, b)
    /\ stdin \in Stdins
    /\ stdout = <<>>
    /\ status = "running"
    /\ overflow_checks \in BOOLEAN
    /\ hist = <<>>
    /\ Idle

\* one turn of the loop: the word is read through read_memory, PC is
\* advanced (mod 2^16), then the handler runs
Cycle ==
    /\ status = "running"
    /\ Len(hist) < MaxCycles
    /\ LET fetched  == poll_memory(VM, pc)
           instr    == cell(fetched.memory, pc)
           advanced == [fetched EXCEPT !.pc = as_u16(pc + 1)]
           vm       == execute_instruction(instr, advanced)
       IN  Commit(instr, vm)

NextDriver == Cycle

SpecDriver == InitDriver /\ [][NextDriver]_vars

-----------------------------------------------------------------------------
(* Runs: instruction after instruction dispatched on one VM that starts    *)
(* with COND = Z                                                           *)

\* instructions dispatched in one run
MaxSteps == 2

\* ADD R0,R0,#1  ADD R1,R1,#-1  ADD R2,R0,R5  AND R3,R3,#0  AND R0,R0,R5
\* NOT R4,R4  LD R1,#1  LD R0,#-1  LDI R2,#2  LDR R3,R6,#0  LEA R0,#0
\* LEA R5,#-1  BRnzp #1  BRn #1  ST R0,#1  STI R1,#2  STR R5,R2,#0  JMP R7
\* JSR #1  JSRR R3  RTI  RES  GETC  OUT  PUTS  IN  PUTSP  HALT  TRAP 0x00
RunWords == {4129, 4735, 5125, 22240, 20485, 39231, 8705, 8703, 42002,
             26496, 57344, 60415, 3585, 2049, 12289, 45570, 31360, 49600,
             18433, 16576, 32768, 53248, 61472, 61473, 61474, 61475, 61476,
             61477, 61440}

RunPCs == {12289, 65535}

InitRun ==
    /\ \E im \in Images : reg = im[1] /\ memory = im[2]
    /\ pc \in RunPCs
    /\ cond = FL_ZRO
    /\ stdin \in Stdins
    /\ stdout = <<>>
    /\ status = "running"
    /\ overflow_checks \in BOOLEAN
    /\ hist = <<>>
    /\ Idle

Step ==
    /\ status = "running"
    /\ Len(hist) < MaxSteps
    /\ \E instr \in RunWords : Dispatch(instr)

NextRun == Step

SpecRun == InitRun /\ [][NextRun]_vars

-----------------------------------------------------------------------------
(* Properties.  They are stated by arithmetic on the instruction word and  *)
(* on the VM the instruction found, not by the handlers' operators.        *)

\* a w-bit two's-complement field as a 16-bit word
SignExt(x, w) == IF x >= Pow2(w - 1) THEN (x + Word - Pow2(w)) % Word ELSE x

\* the condition flag of a word: Z for 0, N for bit 15 set, P otherwise
SignFlag(v) == IF v = 0 THEN 2 ELSE IF v >= 32768 THEN 4 ELSE 1

Ran == hist # <<>>
Last == hist[Len(hist)]
Pre == Last.pre
Instr == Last.instr
Op == Instr \div 4096
Bits11_9 == (Instr \div 512) % 8
Bits8_6 == (Instr \div 64) % 8
Bit5 == (Instr \div 32) % 2
Bit11 == (Instr \div 2048) % 2
Returned == status = "running"

\* C1 (as claimed): for every width 1..16 and every field x < 2^w,
\* sign_extend(x, w) returns x when bit w-1 is clear and x | (0xFFFF << w)
\* truncated to 16 bits when it is set; for w = 16 the result is x.
C1_SignExtendEveryWidth ==
    sres # <<>> => sres[1] = SignExt(sx, sw)

\* C2: after ADD, DR = (SR1 + operand) mod 2^16, the operand being Reg[SR2]
\* when bit 5 is clear and the sign-extended imm5 when it is set; COND is the
\* flag of the new DR; the instruction returns (overflow is not an error).
C2_AddWraps ==
    (Ran /\ Op = 1) =>
        LET operand == IF Bit5 = 0 THEN Pre.reg[Instr % 8]
                       ELSE SignExt(Instr % 32, 5)
        IN  /\ Returned
            /\ reg[Bits11_9] = (Pre.reg[Bits8_6] + operand) % Word
            /\ cond = SignFlag(reg[Bits11_9])

\* ADD R1, R0, #-1 (0x123F) on R0 = 0 has returned with R1 = 0xFFFF and
\* COND = N
C2_Witness ==
    /\ Ran /\ Instr = 4671 /\ Returned
    /\ Pre.reg[0] = 0 /\ reg[1] = 65535 /\ cond = 4

\* an instruction that writes a general register, and the register it writes
\* (section 4.5: the destination of ADD, AND, NOT, LD, LDI, LDR, LEA; R7 for
\* JSR/JSRR; R0 for the traps GETC and IN)
WritesDR == Op \in {1, 5, 9, 2, 10, 6, 14}
WritesR7 == Op = 4
WritesR0 == Op = 15 /\ Instr % 256 \in {32, 35}

\* C3 (as claimed): after any instruction that writes a general register Ri,
\* COND is the flag of the value now in Ri.
C3_CondAfterAnyRegisterWrite ==
    (Ran /\ Returned) =>
        /\ WritesDR => cond = SignFlag(reg[Bits11_9])
        /\ WritesR7 => cond = SignFlag(reg[7])
        /\ WritesR0 => cond = SignFlag(reg[0])

\* C3 (amended): after ADD, AND, NOT, LD, LDI, LDR or LEA returns, COND is
\* the flag of the value now in DR.
C3_CondAfterDestinationWrite ==
    (Ran /\ Returned /\ WritesDR) => cond = SignFlag(reg[Bits11_9])

\* an LEA has moved COND from Z to N: its destination holds a word with
\* bit 15 set
C3_Witness ==
    /\ Ran /\ Returned /\ Op = 14
    /\ Pre.cond = 2 /\ cond = 4 /\ reg[Bits11_9] >= 32768

\* C4: ST, STI, STR, BR, JMP, JSR/JSRR and TRAP leave COND as they found it.
C4_CondPreserved ==
    (Ran /\ Op \in {3, 11, 7, 0, 12, 4, 15}) => cond = Pre.cond

\* GETC has put a non-zero byte in R0 and COND still says Z
C4_Witness ==
    /\ Ran /\ Returned /\ Op = 15 /\ Instr % 256 = 32
    /\ reg[0] = 200 /\ Pre.reg[0] # 200 /\ cond = 2 /\ Pre.cond = 2

\* C5: after JSR/JSRR, R7 is the PC the instruction found; PC is that PC
\* plus the sign-extended PCoffset11 (mod 2^16) when bit 11 is set, and
\* otherwise Reg[BaseR] as it is once R7 has been written: the old PC for
\* BaseR = 7.
C5_JsrLinksThenJumps ==
    (Ran /\ Op = 4) =>
        /\ Returned
        /\ reg[7] = Pre.pc
        /\ pc = IF Bit11 = 1 THEN (Pre.pc + SignExt(Instr % 2048, 11)) % Word
                ELSE IF Bits8_6 = 7 THEN Pre.pc
                ELSE Pre.reg[Bits8_6]

\* JSR #0x10 (0x4810) at PC = 0x3001 has left R7 = 0x3001 and PC = 0x3011
C5_Witness ==
    /\ Ran /\ Instr = 18448 /\ Pre.pc = 12289
    /\ reg[7] = 12289 /\ pc = 12305

JsrrR7 == Ran /\ Op = 4 /\ Bit11 = 0 /\ Bits8_6 = 7

\* C6 (as claimed): after JSRR R7, PC is the value R7 held before the
\* instruction.
C6_JsrrR7JumpsToOldR7 ==
    JsrrR7 => pc = Pre.reg[7]

\* C6 (amended): after JSRR R7, PC is the PC the instruction found, which
\* is also the value now in R7; the old R7 is lost.
C6_JsrrR7KeepsPc ==
    JsrrR7 => (pc = Pre.pc /\ reg[7] = Pre.pc)

\* JSRR R7 (0x41C0) at PC = 0x3001 with R7 = 0x4000 has left PC = 0x3001
C6_Witness ==
    /\ JsrrR7 /\ Instr = 16832
    /\ Pre.pc = 12289 /\ Pre.reg[7] = 16384 /\ pc = 12289

\* C10: BR moves PC to PC + the sign-extended PCoffset9 (mod 2^16) when
\* bits [11:9] and COND share a flag and leaves PC alone otherwise (never
\* taken for nzp = 000); the registers, COND and memory are unchanged.
C10_BrTakenIffFlagShared ==
    (Ran /\ Op = 0) =>
        LET taken == (Bits11_9 \div Pre.cond) % 2 = 1
        IN  /\ Returned
            /\ pc = IF taken THEN (Pre.pc + SignExt(Instr % 512, 9)) % Word
                    ELSE Pre.pc
            /\ reg = Pre.reg /\ cond = Pre.cond /\ memory = Pre.memory

\* BR n, #5 (0x0805) with COND = N at PC = 0x3002 has left PC = 0x3007
C10_Witness ==
    /\ Ran /\ Instr = 2053 /\ Pre.cond = 4 /\ Pre.pc = 12290 /\ pc = 12295

\* a store and then a load of the given opcodes, with the same PCoffset9
\* and the same PC
First == hist[1]
Second == hist[2]
RoundTrip(store, load) ==
    /\ Len(hist) = 2
    /\ First.instr \div 4096 = store
    /\ Second.instr \div 4096 = load
    /\ First.instr % 512 = Second.instr % 512
    /\ First.pre.pc = Second.pre.pc

\* the address PC + sext(x), the word the store found there, the register
\* value stored and the register loaded
RtAddress == (First.pre.pc + SignExt(First.instr % 512, 9)) % Word
RtPointer == read_memory(First.pre, RtAddress)
RtStoredValue == First.pre.reg[(First.instr \div 512) % 8]
RtLoaded == reg[(Second.instr \div 512) % 8]

\* C7 (as claimed): ST R, x then LD R', x at the same PC leaves R' = R for
\* every target address, 0xFE00 and 0xFE02 included.
C7_StLdRoundTripEverywhere ==
    RoundTrip(3, 2) => RtLoaded = RtStoredValue

\* C7 (amended): ST R, x then LD R', x at the same PC leaves R' = R for
\* every target address but KBSR (0xFE00), whose reads return the keyboard
\* status.
C7_StLdRoundTrip ==
    (RoundTrip(3, 2) /\ RtAddress # KBSR) =>
        (Returned /\ RtLoaded = RtStoredValue)

\* ST R7, #2 then LD R0, #2 at PC = 0xFE00: KBDR (0xFE02) has given back
\* the 0x4000 that was stored
C7_Witness ==
    /\ RoundTrip(3, 2) /\ RtAddress = KBDR
    /\ First.instr = 15874 /\ Second.instr = 8194
    /\ RtStoredValue = 16384 /\ First.pre.reg[0] # 16384 /\ reg[0] = 16384

\* C8 (as claimed): STI R, x then LDI R', x at the same PC leaves R' = R
\* whenever both return, for every memory content, a pointer cell that
\* holds its own address included.
C8_StiLdiRoundTripEverywhere ==
    (RoundTrip(11, 10) /\ Returned) => RtLoaded = RtStoredValue

\* C8 (amended): STI R, x then LDI R', x at the same PC, the pointer cell
\* mem[PC + x] holding neither its own address nor KBSR (0xFE00): either
\* the LDI returns with R' = R, or the build checks overflow, PC + sext(x)
\* passes 0xFFFF and the LDI aborts with every register as it found it.
C8_StiLdiRoundTrip ==
    (RoundTrip(11, 10) /\ RtPointer # RtAddress /\ RtPointer # KBSR) =>
        \/ Returned /\ RtLoaded = RtStoredValue
        \/ /\ status = "panicked" /\ overflow_checks
           /\ Second.pre.pc + SignExt(Second.instr % 512, 9) >= Word
           /\ reg = Second.pre.reg /\ memory = Second.pre.memory

\* STI R7, #0 then LDI R0, #0 at PC = 0x3002: the cell 0xBEEF that
\* mem[0x3002] points to has given back the 0x4000 that was stored
C8_Witness ==
    /\ RoundTrip(11, 10) /\ Returned
    /\ First.instr = 48640 /\ Second.instr = 40960
    /\ RtAddress = 12290 /\ RtPointer = 48879
    /\ RtStoredValue = 16384 /\ First.pre.reg[0] # 16384 /\ reg[0] = 16384

PutsRan == Ran /\ Op = 15 /\ Instr % 256 \in {34, 36}

\* some address reached from R0 by adding 1 with 16-bit wrap reads 0x0000
ZeroReachable ==
    \E k \in 0 .. (Word - 1) :
        read_memory(Pre, (Pre.reg[0] + k) % Word) = 0

\* C9 (as claimed): PUTS and PUTSP return iff a zero word is reachable from
\* R0 by ascending addresses with 16-bit wrap; a string that runs past
\* 0xFFFF is scanned on from 0x0000, not aborted.
C9_PutsReturnsIffZeroReachable ==
    PutsRan => (Returned <=> ZeroReachable)

\* the address PC + sext(PCoffset9) mod 2^16 of the last instruction
PcTarget == (Pre.pc + SignExt(Instr % 512, 9)) % Word

\* C11 (as claimed): LDI returns for every instruction word and every PC,
\* negative offsets and sums past 0xFFFF included, with
\* DR = mem[mem[(PC + sext(PCoffset9)) mod 2^16]] and COND the flag of DR.
C11_LdiWrapsAddress ==
    (Ran /\ Op = 10) =>
        LET first  == read_memory(Pre, PcTarget)
            second == read_memory(poll_memory(Pre, PcTarget), first)
        IN  /\ Returned
            /\ reg[Bits11_9] = second
            /\ cond = SignFlag(second)

\* C12: a word whose top nibble is 8 (RTI) or 13 (RES) changes nothing:
\* the registers, PC, COND, memory, the input and the output are as they
\* were, and the machine is still running.
C12_RtiResAreNoOps ==
    (Ran /\ Op \in {8, 13}) =>
        /\ Returned
        /\ reg = Pre.reg /\ pc = Pre.pc /\ cond = Pre.cond
        /\ memory = Pre.memory
        /\ stdin = Pre.stdin /\ stdout = Pre.stdout

\* the word 0xDFFF (RES, every other bit set) was dispatched on a VM with
\* R7 = 0x4000 and a byte waiting on the input, and the VM is running
C12_Witness ==
    /\ Ran /\ Instr = 57343 /\ Returned
    /\ reg[7] = 16384 /\ stdin # <<>>

TrapRan == Ran /\ Op = 15
Vect == Instr % 256

\* "HALT detected"
HaltText == <<72, 65, 76, 84, 32, 100, 101, 116, 101, 99, 116, 101, 100>>

\* what the last instruction wrote to the output
Emitted == SubSeq(stdout, Len(Pre.stdout) + 1, Len(stdout))

StartsWith(q, prefix) ==
    Len(q) >= Len(prefix) /\ SubSeq(q, 1, Len(prefix)) = prefix

\* C13 (as claimed): TRAP 0x25 and every vector outside 0x20..0x25 end the
\* process with a non-zero exit status, the registers and memory as they
\* were; HALT has written `HALT detected` first and an illegal vector has
\* written nothing; the vectors 0x20..0x24 never end the process when their
\* input read succeeds.
C13_OnlyHaltAndIllegalVectorsTerminate ==
    TrapRan =>
        /\ Vect = 37 =>
              /\ status = "exited" /\ StartsWith(Emitted, HaltText)
              /\ reg = Pre.reg /\ memory = Pre.memory
        /\ Vect \notin 32..37 =>
              /\ status = "exited" /\ Emitted = <<>>
              /\ reg = Pre.reg /\ memory = Pre.memory
        /\ (Vect \in 32..36 /\ (Vect \in {32, 35} => Pre.stdin # <<>>)) =>
              Returned

\* the words of the string at addr: ascending addresses (16-bit wrap) up to
\* but excluding the first 0x0000, at most k of them
RECURSIVE StringAt(_, _, _)
StringAt(vm, addr, k) ==
    IF k = 0 \/ read_memory(vm, addr) = 0 THEN <<>>
    ELSE <<read_memory(vm, addr)>> \o StringAt(vm, (addr + 1) % Word, k - 1)

PreString == StringAt(Pre, Pre.reg[0], Word)

LowBytes(ws) == [i \in 1..Len(ws) |-> ws[i] % 256]

\* C14 (as claimed): OUT appends exactly one byte, R0 & 0xFF, for every R0
\* (low bytes 0x80..0xFF included); PUTS appends exactly one byte, the low
\* 8 bits, for each word of the string at R0, in ascending address order.
C14_OutAndPutsAreByteExact ==
    TrapRan =>
        /\ Vect = 33 => Emitted = <<Pre.reg[0] % 256>>
        /\ Vect = 34 => Emitted = LowBytes(PreString)

\* low byte, then the high byte unless it is zero, for each word in turn
RECURSIVE PackedBytes(_)
PackedBytes(ws) ==
    IF ws = <<>> THEN <<>>
    ELSE LET w == Head(ws)
         IN  <<w % 256>> \o (IF w \div 256 # 0 THEN <<w \div 256>> ELSE <<>>)
                 \o PackedBytes(Tail(ws))

\* C15 (as claimed): for each word of the string at R0, in ascending address
\* order, PUTSP writes the low byte (even 0x00) and then the high byte if
\* it is non-zero; nothing is written for the terminating zero word.
C15_PutspLowByteThenHighByte ==
    (TrapRan /\ Vect = 36) => Emitted = PackedBytes(PreString)

\* C16: GETC with a byte b on the input takes exactly that byte, leaves
\* R0 = b (0..0xFF), writes nothing, and leaves R1..R7, PC, COND and memory
\* as they were.
C16_GetcReadsOneByte ==
    (TrapRan /\ Vect = 32 /\ Pre.stdin # <<>>) =>
        /\ Returned
        /\ stdin = Tail(Pre.stdin)
        /\ reg[0] = Head(Pre.stdin) /\ reg[0] \in 0..255
        /\ Emitted = <<>>
        /\ \A i \in 1..7 : reg[i] = Pre.reg[i]
        /\ pc = Pre.pc /\ cond = Pre.cond /\ memory = Pre.memory

\* GETC has taken the byte 0xC8 over R0 = 0xFFFF; R7 is still 0x4000
C16_Witness ==
    /\ TrapRan /\ Vect = 32 /\ Returned
    /\ Pre.stdin = <<200>> /\ Pre.reg[0] = 65535 /\ reg[0] = 200
    /\ reg[7] = 16384 /\ stdin = <<>> /\ stdout = <<>>

\* "Enter a  character : "
PromptText == <<69, 110, 116, 101, 114, 32, 97, 32, 32, 99, 104, 97, 114, 97,
                99, 116, 101, 114, 32, 58, 32>>

\* C17: IN writes the whole prompt before it takes any input: with a byte
\* waiting it then takes exactly that byte into R0 (zero-extended) and
\* returns; with no byte to read the prompt is out, nothing was taken, no
\* register changed and the machine has stopped.
C17_InPromptsThenReads ==
    (TrapRan /\ Vect = 35) =>
        /\ Emitted = PromptText
        /\ Pre.stdin # <<>> =>
              /\ Returned
              /\ stdin = Tail(Pre.stdin)
              /\ reg = [Pre.reg EXCEPT ![0] = Head(Pre.stdin)]
        /\ Pre.stdin = <<>> =>
              /\ status # "running"
              /\ stdin = <<>> /\ reg = Pre.reg

\* IN has written its prompt, taken the byte 0xC8 and left it in R0
C17_Witness ==
    /\ TrapRan /\ Vect = 35 /\ Returned
    /\ Pre.stdin = <<200>> /\ stdin = <<>> /\ reg[0] = 200
    /\ Pre.reg[0] # 200 /\ stdout = PromptText

\* the machine scenario S3 starts from
S3Start(vm) ==
    /\ vm.pc = 12288 /\ vm.cond = 2
    /\ \A i \in 0..7 : vm.reg[i] = 0
    /\ cell(vm.memory, 12288) = 57345
    /\ cell(vm.memory, 12289) = 8704
    /\ cell(vm.memory, 12290) = 48879

S3 == Ran /\ S3Start(First.pre)

\* C18 as stated: in scenario S3 the first instruction leaves R0 = 0x3001
\* and COND = P, the second leaves R1 = 0xBEEF and COND = N.
C18_S3LeaYieldsOwnAddressPlusOffset ==
    S3 => /\ Len(hist) = 1 => (reg[0] = 12289 /\ cond = 1)
          /\ Len(hist) = 2 => (reg[1] = 48879 /\ cond = 4)

\* C18: in scenario S3 the driver has advanced PC to 0x3001 before LEA
\* R0,#1 runs, so the first instruction leaves R0 = 0x3002 and COND = P; the
\* second (PC advanced to 0x3002 first) leaves R1 = 0xBEEF and COND = N, with
\* R0 still 0x3002.
C18_S3LeaCountsFromAdvancedPc ==
    S3 => /\ Returned
          /\ Len(hist) = 1 =>
                (reg[0] = 12290 /\ cond = 1 /\ pc = 12289 /\ reg[1] = 0)
          /\ Len(hist) = 2 =>
                (reg[1] = 48879 /\ cond = 4 /\ pc = 12290 /\ reg[0] = 12290)

\* S3 has run both of its instructions
C18_Witness ==
    /\ S3 /\ Len(hist) = 2
    /\ First.instr = 57345 /\ Second.instr = 8704
    /\ Second.pre.reg[0] = 12290 /\ Second.pre.cond = 1
    /\ reg[1] = 48879 /\ cond = 4

\* C19: starting from COND = Z, after any sequence of dispatched instructions
\* COND is exactly one of N = 4, Z = 2, P = 1.
C19_CondIsOneFlag ==
    (IF Ran THEN First.pre.cond ELSE cond) = 2 => cond \in {4, 2, 1}

\* two instructions have each moved COND: Z, then N, then P
C19_Witness ==
    /\ Len(hist) = 2
    /\ First.pre.cond = 2 /\ Second.pre.cond = 4 /\ cond = 1
    /\ First.instr \div 4096 = 1

StoreRan == Ran /\ Op \in {3, 11, 7}

\* what a read of the pointer cell returns: the keyboard status at 0xFE00
PointerRead ==
    IF PcTarget = 65024 THEN (IF Pre.stdin # <<>> THEN 32768 ELSE 0)
    ELSE cell(Pre.memory, PcTarget)

StoreAddress ==
    IF Op = 3 THEN PcTarget
    ELSE IF Op = 11 THEN PointerRead
    ELSE (Pre.reg[Bits8_6] + SignExt(Instr % 64, 6)) % Word

Cells == DOMAIN memory \cup DOMAIN Pre.memory

\* the cells a read of the pointer cell rewrites: KBSR and KBDR
Polled == IF Op = 11 /\ PcTarget = 65024 THEN {65024, 65026} ELSE {}

\* C20 as stated: after ST, STI or STR the cell at the effective address
\* holds Reg[SR], every other memory cell is unchanged, and the general
\* registers and PC are unchanged.
C20_StoresChangeOneCell ==
    StoreRan =>
        /\ cell(memory, StoreAddress) = Pre.reg[Bits11_9]
        /\ \A a \in Cells \ {StoreAddress} :
               cell(memory, a) = cell(Pre.memory, a)
        /\ reg = Pre.reg /\ pc = Pre.pc

\* C20: after ST, STI or STR the cell at the effective address holds
\* Reg[SR] and the registers, PC, COND and the console are unchanged.  Every
\* other memory cell is unchanged, except that an STI whose pointer cell is
\* KBSR polls the keyboard: its effective address is the status read (0x8000
\* or 0), KBSR holds that status and, with a byte waiting, KBDR holds the byte.
C20_StoresChangeOneCellOrPoll ==
    StoreRan =>
        /\ Returned
        /\ cell(memory, StoreAddress) = Pre.reg[Bits11_9]
        /\ \A a \in Cells \ ({StoreAddress} \cup Polled) :
               cell(memory, a) = cell(Pre.memory, a)
        /\ Polled # {} =>
               /\ cell(memory, 65024) = PointerRead
               /\ Pre.stdin # <<>> => cell(memory, 65026) = Head(Pre.stdin)
               /\ Pre.stdin = <<>> =>
                      cell(memory, 65026) = cell(Pre.memory, 65026)
        /\ reg = Pre.reg /\ pc = Pre.pc /\ cond = Pre.cond
        /\ stdin = Pre.stdin /\ stdout = Pre.stdout

\* STI R0,#0 at PC = 0x3001, where the cell holds 0x3001: the pointer cell
\* itself now holds R0 = 0xFFFF
C20_Witness ==
    /\ StoreRan /\ Instr = 45056
    /\ Pre.pc = 12289 /\ cell(Pre.memory, 12289) = 12289
    /\ Pre.reg[0] = 65535 /\ cell(memory, 12289) = 65535
    /\ cell(memory, 12290) = 48879

====
